---- MODULE Spec2Model ----
(***************************************************************************)
(* The voice fetcher list_voices() and the voice directory VoicesManager   *)
(* of edge_tts (src/edge_tts/list_voices.py) as one state machine: a       *)
(* caller that constructs directories, runs create() through its fetch,    *)
(* normalization and return, and queries the directory it holds.           *)
(***************************************************************************)
EXTENDS Naturals, Sequences, FiniteSets, TLC

\* Longest record sequence (seed or catalog) the model draws.
MaxVoices == 2

(***************************************************************************)
(* Python values.  Every value carries its type, so that None, a string    *)
(* and a list are never equal to one another (no coercion).  A string is   *)
(* its sequence of characters.                                             *)
(***************************************************************************)
None == [type |-> "NoneType"]
Str(s) == [type |-> "str", chars |-> s]
List(l) == [type |-> "list", items |-> l]

enUS == Str(<<"e", "n", "-", "U", "S">>)
fr == Str(<<"f", "r">>)
en == Str(<<"e", "n">>)
xx == Str(<<"x", "x">>)
Female == Str(<<"F", "e", "m", "a", "l", "e">>)

\* The attribute names the model gives a record, and the values each may
\* carry in a raw record (a seed or a decoded JSON object; null is None).
Keys == {"Locale", "Gender", "Language"}
RawValues ==
    [key \in Keys |->
        CASE key = "Locale" -> {enUS, fr, None}
          [] key = "Gender" -> {Female, None}
          [] key = "Language" -> {xx}]

\* A dict: a function from the keys it holds to their values.
Dicts(values) ==
    UNION {{d \in [D -> UNION {values[k] : k \in Keys}] :
               \A k \in D : d[k] \in values[k]} : D \in SUBSET Keys}

VoiceRecords == Dicts(RawValues)

SeqsUpTo(S, n) == UNION {[1..m -> S] : m \in 0..n}
VoiceLists == SeqsUpTo(VoiceRecords, MaxVoices)

\* What a caller passes for an optional record sequence: nothing, or a list.
Arguments == {None} \cup {List(l) : l \in VoiceLists}

\* The keyword arguments the model passes to find().
QueryValues ==
    [key \in Keys |->
        CASE key = "Locale" -> {enUS}
          [] key = "Gender" -> {Female, None}
          [] key = "Language" -> {en}]
Queries == Dicts(QueryValues)

(***************************************************************************)
(* Pure functions of the source.                                           *)
(***************************************************************************)
\* str.split(sep): the list of the pieces between the occurrences of sep.
RECURSIVE split(_, _)
split(chars, sep) ==
    IF \A i \in 1..Len(chars) : chars[i] # sep
        THEN <<chars>>
        ELSE LET i == CHOOSE j \in 1..Len(chars) :
                          /\ chars[j] = sep
                          /\ \A h \in 1..(j - 1) : chars[h] # sep
             IN  <<SubSeq(chars, 1, i - 1)>>
                     \o split(SubSeq(chars, i + 1, Len(chars)), sep)

\* A variant of WithLanguage: {"Language": language, **voice}, where a
\* Language the record already carries wins.
WithLanguageKeep(voice, language) ==
    [k \in DOMAIN voice \cup {"Language"} |->
        IF k \in DOMAIN voice THEN voice[k] ELSE language]

\* {**voice, "Language": language}
WithLanguage(voice, language) ==
    [k \in DOMAIN voice \cup {"Language"} |->
        IF k = "Language" THEN language ELSE voice[k]]

Returned(value) == [kind |-> "returned", value |-> value]
Raised(type, msg) == [kind |-> "raised", error |-> [type |-> type, msg |-> msg]]
NoResult == [kind |-> "none"]

\* A variant of NormalizeVoice: a record without a Locale is kept as it is.
NormalizeVoiceLenient(voice) ==
    IF "Locale" \notin DOMAIN voice
        THEN Returned(voice)
    ELSE IF voice["Locale"].type # "str"
        THEN Raised("AttributeError", "split")
    ELSE Returned(WithLanguage(voice, Str(split(voice["Locale"].chars, "-")[1])))

\* One element of the comprehension of create():
\* {**voice, "Language": voice["Locale"].split("-")[0]}
NormalizeVoice(voice) ==
    IF "Locale" \notin DOMAIN voice
        THEN Raised("KeyError", "Locale")
    ELSE IF voice["Locale"].type # "str"
        THEN Raised("AttributeError", "split")
    ELSE Returned(WithLanguage(voice, Str(split(voice["Locale"].chars, "-")[1])))

\* The list comprehension of create(): the new list, or the error of the
\* first record that raises (the assignment to manager.voices is then not
\* reached).
NormalizeAll(voices) ==
    LET each == [i \in 1..Len(voices) |-> NormalizeVoice(voices[i])]
        bad == {i \in 1..Len(voices) : each[i].kind = "raised"}
    IN  IF bad = {}
            THEN Returned([i \in 1..Len(voices) |-> each[i].value])
            ELSE each[CHOOSE i \in bad : \A j \in bad : i <= j]

\* voice.get(key): the value, or None when the key is missing.
Get(voice, key) == IF key \in DOMAIN voice THEN voice[key] ELSE None

\* all(voice.get(key) == value for key, value in attributes.items())
Matches(voice, attributes) ==
    \A key \in DOMAIN attributes : Get(voice, key) = attributes[key]

\* A variant of find: without the check of is_initialized.
findUnguarded(self, attributes) ==
    IF DOMAIN attributes = {}
        THEN Returned(self.voices)
    ELSE Returned(SelectSeq(self.voices, LAMBDA voice : Matches(voice, attributes)))

\* VoicesManager.find(**attributes) on the directory self.
find(self, attributes) ==
    IF ~self.is_initialized
        THEN Raised("RuntimeError",
                    "VoicesManager.find() called before VoicesManager.create()")
    ELSE IF DOMAIN attributes = {}
        THEN Returned(self.voices)
    ELSE Returned(SelectSeq(self.voices, LAMBDA voice : Matches(voice, attributes)))

\* VoicesManager.__init__(voices): self.voices = voices or [].
NewManager(voices) ==
    [voices |-> IF voices = None \/ voices.items = <<>> THEN <<>> ELSE voices.items,
     is_initialized |-> FALSE]

\* A variant of NeedsFetch: "if not custom_voices", which an empty seed meets.
NeedsFetchFalsy(custom_voices) ==
    custom_voices = None \/ custom_voices.items = <<>>

\* create(): "await list_voices() if custom_voices is None else custom_voices".
NeedsFetch(custom_voices) == custom_voices = None

(***************************************************************************)
(* What the awaits of list_voices() can end in.  `cause` is what happened  *)
(* on the wire, `exc` the class of the exception aiohttp raises for it:    *)
(* connection and TLS failures and a bad status are ClientError            *)
(* subclasses; a timeout is a ClientError subclass (ServerTimeoutError)    *)
(* or asyncio.TimeoutError, depending on which timer expires; a body that  *)
(* is not JSON ends in json.JSONDecodeError, or in ContentTypeError (a     *)
(* ClientError) when the response does not declare a JSON content type;    *)
(* cancellation of the awaiting task raises CancelledError at the await.   *)
(***************************************************************************)
GetFailures ==
    {[cause |-> "connection_refused", exc |-> "ClientError"],
     [cause |-> "tls_failure", exc |-> "ClientError"],
     [cause |-> "timeout", exc |-> "ClientError"],
     [cause |-> "timeout", exc |-> "TimeoutError"],
     [cause |-> "cancelled", exc |-> "CancelledError"]}

JsonFailures ==
    {[cause |-> "invalid_json", exc |-> "JSONDecodeError"],
     [cause |-> "invalid_json", exc |-> "ContentTypeError"],
     [cause |-> "timeout", exc |-> "TimeoutError"],
     [cause |-> "cancelled", exc |-> "CancelledError"]}

\* isinstance(e, aiohttp.ClientError)
IsClientError(exc) == exc \in {"ClientError", "ContentTypeError"}

\* The except clauses of list_voices(): the error that leaves the try
\* statement when exc was raised inside it.
Handle(exc) ==
    IF IsClientError(exc)
        THEN [type |-> "RuntimeError", msg |-> "Failed to fetch voice list"]
    ELSE IF exc = "JSONDecodeError"
        THEN [type |-> "ValueError",
              msg |-> "Failed to decode the voice list response as JSON."]
    ELSE [type |-> exc, msg |-> ""]

(***************************************************************************)
(* State.                                                                  *)
(***************************************************************************)
VARIABLES
    pc,             \* where the create() call in progress stands; "idle" if none
    custom_voices,  \* create(): the argument
    voices,         \* create(): the local `voices`
    manager,        \* create(): the local `manager`
    fetches,        \* list_voices() invocations made by the current create() call
    session,        \* list_voices(): the ClientSession: "none", "open", "closed"
    response,       \* list_voices(): the response: "none", "open", "closed"
    status,         \* list_voices(): the status of the response received
    cause,          \* list_voices(): what went wrong on the wire, "none" if nothing
    exc,            \* list_voices(): the class of the exception in flight, or "none"
    data,           \* list_voices(): the decoded body being returned
    error,          \* list_voices(): the error leaving its try statement, or None
    lv_result,      \* how the list_voices() call of the current create() ended
    outcome,        \* how the last create() call ended for its caller
    vm,             \* the directory the caller holds
    found,          \* how the caller's last find() ended, with its arguments
    remembered      \* the first result find() returned on the directory held

vars == <<pc, custom_voices, voices, manager, fetches, session, response, status,
          cause, exc, data, error, lv_result, outcome, vm, found, remembered>>

createLocals == <<custom_voices, voices, manager>>
fetchState == <<session, response, status, cause, exc, data, error>>
callerState == <<vm, found, remembered>>

Init ==
    /\ pc = "idle"
    /\ custom_voices = None
    /\ voices = None
    /\ manager = None
    /\ fetches = 0
    /\ session = "none"
    /\ response = "none"
    /\ status = 0
    /\ cause = "none"
    /\ exc = "none"
    /\ data = None
    /\ error = None
    /\ lv_result = NoResult
    /\ outcome = NoResult
    /\ vm = None
    /\ found = NoResult
    /\ remembered = NoResult

(***************************************************************************)
(* The caller: direct construction, and the start of a create() call.      *)
(***************************************************************************)
NoFetch ==
    /\ session' = "none"
    /\ response' = "none"
    /\ status' = 0
    /\ cause' = "none"
    /\ exc' = "none"
    /\ data' = None
    /\ error' = None
    /\ lv_result' = NoResult

DropDirectory ==
    /\ found' = NoResult
    /\ remembered' = NoResult

\* VoicesManager(voices): a directory constructed but not populated.
\* Directories share no state, so the model follows one at a time: the
\* caller constructs or creates one while it holds none.
Construct ==
    /\ pc = "idle"
    /\ vm = None
    /\ \E arg \in Arguments : vm' = NewManager(arg)
    /\ DropDirectory
    /\ NoFetch
    /\ fetches' = 0
    /\ outcome' = NoResult
    /\ UNCHANGED <<pc, createLocals>>

\* await VoicesManager.create(custom_voices), up to the choice of line 81.
CreateCall ==
    /\ pc = "idle"
    /\ vm = None
    /\ \E arg \in Arguments :
          /\ custom_voices' = arg
          /\ IF NeedsFetch(arg)
                THEN /\ pc' = "lv_session"
                     /\ fetches' = 1
                     /\ voices' = None
                ELSE /\ pc' = "create_init"
                     /\ fetches' = 0
                     /\ voices' = arg
    /\ manager' = None
    /\ vm' = None
    /\ DropDirectory
    /\ NoFetch
    /\ outcome' = NoResult

(***************************************************************************)
(* list_voices().                                                          *)
(***************************************************************************)
\* async with aiohttp.ClientSession(trust_env=True) as session:
EnterSession ==
    /\ pc = "lv_session"
    /\ session' = "open"
    /\ pc' = "lv_get"
    /\ UNCHANGED <<createLocals, fetches, response, status, cause, exc, data,
                   error, lv_result, outcome, callerState>>

\* async with session.get(...) as response: a response arrives.
GetResponse(code) ==
    /\ pc = "lv_get"
    /\ response' = "open"
    /\ status' = code
    /\ pc' = "lv_status"
    /\ UNCHANGED <<createLocals, fetches, session, cause, exc, data, error,
                   lv_result, outcome, callerState>>

\* async with session.get(...) as response: the await raises; the body of
\* the inner with statement is never entered.
GetFails(failure) ==
    /\ pc = "lv_get"
    /\ cause' = failure.cause
    /\ exc' = failure.exc
    /\ pc' = "lv_except"
    /\ UNCHANGED <<createLocals, fetches, session, response, status, data,
                   error, lv_result, outcome, callerState>>

\* response.raise_for_status(): ClientResponseError for a status >= 400.
RaiseForStatus ==
    /\ pc = "lv_status"
    /\ IF status >= 400
          THEN /\ cause' = "http_status"
               /\ exc' = "ClientError"
               /\ pc' = "lv_exit_response"
          ELSE /\ pc' = "lv_json"
               /\ UNCHANGED <<cause, exc>>
    /\ UNCHANGED <<createLocals, fetches, session, response, status, data,
                   error, lv_result, outcome, callerState>>

\* data = await response.json(); return data
JsonDecodes ==
    /\ pc = "lv_json"
    /\ \E body \in VoiceLists : data' = List(body)
    /\ pc' = "lv_exit_response"
    /\ UNCHANGED <<createLocals, fetches, session, response, status, cause,
                   exc, error, lv_result, outcome, callerState>>

\* data = await response.json(): the await raises.
JsonFails(failure) ==
    /\ pc = "lv_json"
    /\ cause' = failure.cause
    /\ exc' = failure.exc
    /\ pc' = "lv_exit_response"
    /\ UNCHANGED <<createLocals, fetches, session, response, status, data,
                   error, lv_result, outcome, callerState>>

\* Leaving the inner with statement, by return or by exception: the
\* response is released.
ExitResponse ==
    /\ pc = "lv_exit_response"
    /\ response' = "closed"
    /\ pc' = IF exc = "none" THEN "lv_exit_session" ELSE "lv_except"
    /\ UNCHANGED <<createLocals, fetches, session, status, cause, exc, data,
                   error, lv_result, outcome, callerState>>

\* The except clauses of lines 47-50.
Except ==
    /\ pc = "lv_except"
    /\ error' = Handle(exc)
    /\ pc' = "lv_exit_session"
    /\ UNCHANGED <<createLocals, fetches, session, response, status, cause,
                   exc, data, lv_result, outcome, callerState>>

\* A variant of ExitSession: the session is closed on the return path only.
ExitSessionLeak ==
    /\ pc = "lv_exit_session"
    /\ session' = IF error = None THEN "closed" ELSE session
    /\ lv_result' = IF error = None
                       THEN [kind |-> "returned"]
                       ELSE [kind |-> "raised", error |-> error]
    /\ pc' = "create_await"
    /\ UNCHANGED <<createLocals, fetches, response, status, cause, exc, data,
                   error, outcome, callerState>>

\* Leaving the outer with statement, by return or by exception: the session
\* is closed, and list_voices() ends.
ExitSession ==
    /\ pc = "lv_exit_session"
    /\ session' = "closed"
    /\ lv_result' = IF error = None
                       THEN [kind |-> "returned"]
                       ELSE [kind |-> "raised", error |-> error]
    /\ pc' = "create_await"
    /\ UNCHANGED <<createLocals, fetches, response, status, cause, exc, data,
                   error, outcome, callerState>>

(***************************************************************************)
(* create(), from the end of its await to its return.                      *)
(***************************************************************************)
\* A variant of CreateResume: a failed fetch is swallowed and the directory
\* is populated from an empty catalog.
CreateResumeSwallow ==
    /\ pc = "create_await"
    /\ voices' = IF lv_result.kind = "raised" THEN List(<<>>) ELSE data
    /\ data' = None
    /\ pc' = "create_init"
    /\ UNCHANGED <<outcome, custom_voices, manager, fetches, session, response,
                   status, cause, exc, error, lv_result, callerState>>

\* voices = await list_voices(): the value is bound, or the error leaves
\* create(), which has no try statement.
CreateResume ==
    /\ pc = "create_await"
    /\ IF lv_result.kind = "raised"
          THEN /\ outcome' = lv_result
               /\ pc' = "idle"
               /\ custom_voices' = None
               /\ voices' = None
               /\ data' = None
          ELSE /\ voices' = data
               /\ data' = None
               /\ pc' = "create_init"
               /\ UNCHANGED <<outcome, custom_voices>>
    /\ UNCHANGED <<manager, fetches, session, response, status, cause, exc,
                   error, lv_result, callerState>>

\* manager = cls(voices)
CreateInit ==
    /\ pc = "create_init"
    /\ manager' = NewManager(voices)
    /\ pc' = "create_normalize"
    /\ UNCHANGED <<custom_voices, voices, fetches, fetchState, lv_result,
                   outcome, callerState>>

\* manager.voices = [{**voice, "Language": ...} for voice in manager.voices]
Normalize ==
    /\ pc = "create_normalize"
    /\ LET result == NormalizeAll(manager.voices)
       IN  IF result.kind = "raised"
              THEN /\ outcome' = result
                   /\ pc' = "idle"
                   /\ custom_voices' = None
                   /\ voices' = None
                   /\ manager' = None
              ELSE /\ manager' = [manager EXCEPT !.voices = result.value]
                   /\ pc' = "create_mark"
                   /\ UNCHANGED <<outcome, custom_voices, voices>>
    /\ UNCHANGED <<fetches, fetchState, lv_result, callerState>>

\* manager.is_initialized = True
MarkInitialized ==
    /\ pc = "create_mark"
    /\ manager' = [manager EXCEPT !.is_initialized = TRUE]
    /\ pc' = "create_return"
    /\ UNCHANGED <<custom_voices, voices, fetches, fetchState, lv_result,
                   outcome, callerState>>

\* return manager
Return ==
    /\ pc = "create_return"
    /\ vm' = manager
    /\ outcome' = [kind |-> "returned"]
    /\ pc' = "idle"
    /\ custom_voices' = None
    /\ voices' = None
    /\ manager' = None
    /\ UNCHANGED <<fetches, fetchState, lv_result, found, remembered>>

(***************************************************************************)
(* find() on the directory the caller holds.                               *)
(***************************************************************************)
\* The record the caller keeps of a find() call: its arguments, how it
\* ended, and whether it repeats the arguments of the first result
\* remembered.
Call(attributes, result) ==
    IF result.kind = "returned"
        THEN [kind |-> "returned", attributes |-> attributes,
              value |-> result.value,
              again |-> remembered # NoResult
                            /\ remembered.attributes = attributes]
        ELSE [kind |-> "raised", attributes |-> attributes,
              error |-> result.error]

Remember(call) ==
    IF remembered = NoResult /\ call.kind = "returned"
        THEN [attributes |-> call.attributes, value |-> call.value]
        ELSE remembered

\* A variant of Find: the matches found replace the records of the directory
\* (self.voices = matching_voices).
FindConsuming ==
    /\ vm # None
    /\ \E attributes \in Queries :
          LET result == find(vm, attributes)
          IN  /\ found' = Call(attributes, result)
              /\ remembered' = Remember(Call(attributes, result))
              /\ vm' = IF result.kind = "returned"
                           THEN [vm EXCEPT !.voices = result.value]
                           ELSE vm
    /\ UNCHANGED <<pc, createLocals, fetches, fetchState, lv_result, outcome>>

Find ==
    /\ vm # None
    /\ \E attributes \in Queries :
          LET result == find(vm, attributes)
          IN  /\ found' = Call(attributes, result)
              /\ remembered' = Remember(Call(attributes, result))
    /\ UNCHANGED <<pc, createLocals, fetches, fetchState, lv_result, outcome, vm>>

Next ==
    \/ Construct
    \/ CreateCall
    \/ EnterSession
    \/ \E code \in {200, 503} : GetResponse(code)
    \/ \E failure \in GetFailures : GetFails(failure)
    \/ RaiseForStatus
    \/ JsonDecodes
    \/ \E failure \in JsonFailures : JsonFails(failure)
    \/ ExitResponse
    \/ Except
    \/ ExitSession
    \/ CreateResume
    \/ CreateInit
    \/ Normalize
    \/ MarkInitialized
    \/ Return
    \/ Find

Spec == Init /\ [][Next]_vars

TypeOK ==
    /\ pc \in {"idle", "lv_session", "lv_get", "lv_status", "lv_json",
               "lv_exit_response", "lv_except", "lv_exit_session",
               "create_await", "create_init", "create_normalize",
               "create_mark", "create_return"}
    /\ fetches \in 0..1
    /\ session \in {"none", "open", "closed"}
    /\ response \in {"none", "open", "closed"}

(***************************************************************************)
(* Notions the claims are stated in.                                       *)
(***************************************************************************)
\* The part of a string before its first "-": the whole string without one.
BeforeFirstDash(chars) ==
    LET n == CHOOSE m \in 0..Len(chars) :
                 /\ \A i \in 1..m : chars[i] # "-"
                 /\ m = Len(chars) \/ chars[m + 1] = "-"
    IN  SubSeq(chars, 1, n)

HasDash(chars) == \E i \in 1..Len(chars) : chars[i] = "-"

HasStringLocale(voice) ==
    "Locale" \in DOMAIN voice /\ voice["Locale"].type = "str"

\* The record holds every queried attribute name with the queried value.
HoldsAll(voice, attributes) ==
    \A key \in DOMAIN attributes :
        key \in DOMAIN voice /\ voice[key] = attributes[key]

NotInitializedError ==
    [type |-> "RuntimeError",
     msg |-> "VoicesManager.find() called before VoicesManager.create()"]

InListVoices ==
    pc \in {"lv_session", "lv_get", "lv_status", "lv_json", "lv_exit_response",
            "lv_except", "lv_exit_session"}

TransportCauses == {"connection_refused", "tls_failure", "timeout", "http_status"}

(***************************************************************************)
(* C1: find() on a directory that was constructed but not populated ends   *)
(* in the not-initialized error and returns nothing, whatever the          *)
(* attribute mapping and whatever the directory was constructed with.      *)
(***************************************************************************)
C1_FindBeforePopulationFails ==
    (vm # None /\ ~vm.is_initialized /\ found # NoResult)
        => (found.kind = "raised" /\ found.error = NotInitializedError)

C1_Witness ==
    /\ vm # None
    /\ ~vm.is_initialized
    /\ vm.voices # <<>>
    /\ found.kind = "raised"
    /\ DOMAIN found.attributes # {}

(***************************************************************************)
(* C2: in a populated directory (create()'s own, and the one the caller    *)
(* holds) every record has a Language equal to the part of its Locale      *)
(* before the first "-", whatever Language the record came with.           *)
(***************************************************************************)
C2_LanguageMatchesLocale ==
    \A m \in {manager, vm} :
        (m # None /\ m.is_initialized)
            => \A i \in 1..Len(m.voices) :
                   /\ HasStringLocale(m.voices[i])
                   /\ "Language" \in DOMAIN m.voices[i]
                   /\ m.voices[i]["Language"]
                          = Str(BeforeFirstDash(m.voices[i]["Locale"].chars))

C2_Witness ==
    /\ pc = "create_return"
    /\ manager.is_initialized
    /\ custom_voices # None
    /\ \E i \in 1..Len(custom_voices.items) :
           LET seed == custom_voices.items[i]
           IN  /\ DOMAIN seed = Keys
               /\ seed["Locale"] = enUS
               /\ seed["Language"] = xx
               /\ manager.voices[i]["Language"] = en

(***************************************************************************)
(* C3: when the fetch of create() fails, create() fails with that very     *)
(* error and the caller gets no directory; a directory is marked           *)
(* populated only with every record normalized, and the caller only ever   *)
(* gets a populated one from create().                                     *)
(***************************************************************************)
C3_CreateAllOrNothing ==
    /\ (pc = "idle" /\ lv_result.kind = "raised")
           => (outcome = [kind |-> "raised", error |-> error] /\ vm = None)
    /\ outcome.kind = "raised" => vm = None
    /\ outcome.kind = "returned" => (vm # None /\ vm.is_initialized)
    /\ (manager # None /\ manager.is_initialized)
           => /\ Len(manager.voices) = Len(voices.items)
              /\ \A i \in 1..Len(manager.voices) :
                     "Language" \in DOMAIN manager.voices[i]

C3_Witness ==
    /\ pc = "idle"
    /\ lv_result.kind = "raised"
    /\ cause = "http_status"
    /\ outcome.kind = "raised"
    /\ outcome.error.type = "RuntimeError"

(***************************************************************************)
(* C4: a create() call given a record sequence, empty or not, makes no     *)
(* call of list_voices(); list_voices() runs only for a call given none.   *)
(***************************************************************************)
C4_SeedSkipsFetch ==
    /\ custom_voices # None => (fetches = 0 /\ session = "none")
    /\ InListVoices => custom_voices = None

C4_Witness ==
    /\ pc = "create_return"
    /\ custom_voices = List(<<>>)
    /\ fetches = 0

(***************************************************************************)
(* C5: on a populated directory find() returns exactly the records, in     *)
(* catalog order, that hold every queried attribute name with the queried  *)
(* value; every record for the empty mapping.                              *)
(***************************************************************************)
C5_FindReturnsExactMatches ==
    (vm # None /\ vm.is_initialized /\ found.kind = "returned")
        => found.value
               = SelectSeq(vm.voices,
                           LAMBDA voice : HoldsAll(voice, found.attributes))

(***************************************************************************)
(* C6: a record that lacks a queried attribute name is never in the        *)
(* result of find(), whatever the queried value, None included.            *)
(***************************************************************************)
C6_MissingKeyNeverMatches ==
    found.kind = "returned"
        => \A i \in 1..Len(found.value) :
               DOMAIN found.attributes \subseteq DOMAIN found.value[i]

(***************************************************************************)
(* C7, as claimed: the normalization pass never makes create() fail (only  *)
(* a failed fetch does), and a Locale without "-" becomes the Language.    *)
(***************************************************************************)
C7_NormalizationNeverRaises ==
    /\ outcome.kind = "raised" => lv_result.kind = "raised"
    /\ (manager # None /\ manager.is_initialized)
           => \A i \in 1..Len(manager.voices) :
                  LET voice == manager.voices[i]
                  IN  (HasStringLocale(voice) /\ ~HasDash(voice["Locale"].chars))
                          => voice["Language"] = voice["Locale"]

(***************************************************************************)
(* C7, amended: the normalization pass raises no error when every record   *)
(* has a string Locale, whatever the string, and a Locale without "-"      *)
(* becomes the Language; otherwise create() fails with the KeyError (no    *)
(* Locale) or AttributeError (a Locale that is no string) of the first     *)
(* such record, and the caller gets no directory.                          *)
(***************************************************************************)
FirstBad(records) ==
    CHOOSE i \in 1..Len(records) :
        /\ ~HasStringLocale(records[i])
        /\ \A j \in 1..(i - 1) : HasStringLocale(records[j])

NormalizationStep ==
    pc = "create_normalize"
        => IF \A i \in 1..Len(manager.voices) : HasStringLocale(manager.voices[i])
              THEN /\ pc' = "create_mark"
                   /\ outcome' = outcome
                   /\ Len(manager'.voices) = Len(manager.voices)
                   /\ \A i \in 1..Len(manager.voices) :
                          ~HasDash(manager.voices[i]["Locale"].chars)
                              => manager'.voices[i]["Language"]
                                     = manager.voices[i]["Locale"]
              ELSE /\ pc' = "idle"
                   /\ vm' = None
                   /\ outcome'.kind = "raised"
                   /\ outcome'.error.type
                          = IF "Locale" \in DOMAIN manager.voices[FirstBad(manager.voices)]
                               THEN "AttributeError"
                               ELSE "KeyError"

C7_NormalizationRaisesOnlyWithoutStringLocale == [][NormalizationStep]_vars

C7_Witness ==
    /\ pc = "idle"
    /\ outcome.kind = "raised"
    /\ outcome.error.type = "KeyError"
    /\ vm = None

(***************************************************************************)
(* C8: a list_voices() call that fails for a transport-level reason ends   *)
(* in the fetch error (RuntimeError), one that fails on a 2xx body that    *)
(* is not JSON in the decode error (ValueError), and in nothing else.      *)
(***************************************************************************)
C8_FailuresClassified ==
    (lv_result.kind = "raised" /\ cause # "cancelled")
        => /\ cause \in TransportCauses => lv_result.error.type = "RuntimeError"
           /\ cause = "invalid_json" => lv_result.error.type = "ValueError"
           /\ lv_result.error.type \in {"RuntimeError", "ValueError"}

(***************************************************************************)
(* C9: no step changes a populated directory, and a find() that repeats    *)
(* the arguments of an earlier one, other calls in between or not,         *)
(* returns the same records in the same order.                             *)
(***************************************************************************)
FindFrame ==
    (vm # None /\ vm.is_initialized)
        => /\ vm' = vm
           /\ (found'.kind = "returned" /\ remembered # NoResult
                   /\ found'.attributes = remembered.attributes)
                  => found'.value = remembered.value

C9_FindIsReadOnly == [][FindFrame]_vars

C9_Witness ==
    /\ found.kind = "returned"
    /\ found.again
    /\ DOMAIN found.attributes # {}
    /\ found.value # <<>>
    /\ Len(found.value) < Len(vm.voices)

(***************************************************************************)
(* C10: whenever control is not inside list_voices() its session and       *)
(* response are not open: both are closed on every way out of the call,    *)
(* return, HTTP error, decode error or cancellation.                       *)
(***************************************************************************)
C10_ConnectionClosedOnExit ==
    /\ ~InListVoices => (session # "open" /\ response # "open")
    /\ lv_result # NoResult => session = "closed"

C10_Witness ==
    /\ lv_result.kind = "raised"
    /\ cause = "cancelled"
    /\ session = "closed"
    /\ response = "closed"

====
